---- MODULE Spec2Model ----
(***************************************************************************)
(* A model of pstack's ELF object layer (src/elf.cc): the program-header   *)
(* groups and the address lookup over them, companion debug discovery and  *)
(* prelink compensation, hash-accelerated symbol lookup, address-to-symbol *)
(* lookup, note iteration, symbol versions, section lookup and the section *)
(* byte view.                                                              *)
(*                                                                         *)
(* Each part of the Object has its own variables, its own initial states   *)
(* and its own next-state relation; a specification SpecX runs one part    *)
(* and leaves the variables of the other parts at their idle values.       *)
(***************************************************************************)
EXTENDS Integers, Sequences, FiniteSets, TLC

(***************************************************************************)
(* Machine words.  Elf::Addr and Elf::Off are unsigned words of the        *)
(* platform; the model keeps the wrap-around and shortens the word.        *)
(***************************************************************************)
AddrBits == 2
AddrModulus == 2 ^ AddrBits
Addr == 0 .. (AddrModulus - 1)
AddWrap(x, y) == (x + y) % AddrModulus
SubWrap(x, y) == (x - y + AddrModulus) % AddrModulus

(***************************************************************************)
(* PART 1.  Program headers of one Object and getSegmentForAddress.        *)
(***************************************************************************)
VARIABLES
    programHeaders,         \* p_type -> the headers of that type, as sorted
    lastSegmentForAddress,  \* 0 for nullptr, else an index into the group
    segCall                 \* the last getSegmentForAddress call and its result

segVars == <<programHeaders, lastSegmentForAddress, segCall>>

MaxPhdr == 3

SegTypes == {"PT_LOAD", "PT_NOTE"}

Phdr == [p_type : SegTypes, p_vaddr : Addr, p_memsz : Addr]

LoadPhdr == [p_type : {"PT_LOAD"}, p_vaddr : Addr, p_memsz : Addr]

RawLoadLists == UNION {[1 .. n -> LoadPhdr] : n \in 0 .. MaxPhdr}

\* The comparator handed to std::sort: lhs.p_vaddr < rhs.p_vaddr.
PhdrLess(lhs, rhs) == lhs.p_vaddr < rhs.p_vaddr

IsSortedBy(hdrs) ==
    \A i \in 1 .. Len(hdrs) - 1 : ~PhdrLess(hdrs[i + 1], hdrs[i])

\* std::sort is not stable: any arrangement of the headers in which no
\* element is "less" than an earlier one may come out.
SortPhdrs(raw) ==
    { s \in { [i \in 1 .. Len(raw) |-> raw[p[i]]] : p \in Permutations(1 .. Len(raw)) } :
        IsSortedBy(s) }

OfType(raw, t) == SelectSeq(raw, LAMBDA h : h.p_type = t)

\* The constructor's programHeaders: programHeaders[hdr.p_type].push_back(hdr)
\* for every header read, then every group sorted.  The map has a key only
\* for a type some header has.
ConstructProgramHeaders(raw) ==
    LET types == {raw[i].p_type : i \in 1 .. Len(raw)}
    IN  { ph \in [types -> UNION {SortPhdrs(OfType(raw, t)) : t \in types}] :
            \A t \in types : ph[t] \in SortPhdrs(OfType(raw, t)) }

\* Object::getSegments(type): the group, or the static empty list.
GetSegments(ph, type) == IF type \in DOMAIN ph THEN ph[type] ELSE <<>>

\* header.p_vaddr + header.p_memsz in Elf::Off arithmetic.
SegEnd(header) == AddWrap(header.p_vaddr, header.p_memsz)

\* A mutation of the lower_bound comparator: "<" for "<=".
SegEndsBeforeStrict(header, addr) == SegEnd(header) < addr

\* The comparator handed to std::lower_bound.
SegEndsBefore(header, addr) == SegEnd(header) <= addr

\* std::lower_bound over hdrs[first+1 .. first+len] (0-based first), as the
\* bisection libstdc++ and libc++ both run; the result is a 1-based index,
\* Len(hdrs)+1 for end().
RECURSIVE LowerBound(_, _, _, _)
LowerBound(hdrs, first, len, addr) ==
    IF len <= 0 THEN first + 1
    ELSE LET half == len \div 2
             mid == first + half
         IN  IF SegEndsBefore(hdrs[mid + 1], addr)
             THEN LowerBound(hdrs, mid + 1, len - half - 1, addr)
             ELSE LowerBound(hdrs, first, half, addr)

\* A mutation of the cache test: the end of the cached segment is not looked at.
CacheHitNoEnd(hdrs, last, a) ==
    /\ last # 0
    /\ hdrs[last].p_vaddr <= a

CacheHit(hdrs, last, a) ==
    /\ last # 0
    /\ hdrs[last].p_vaddr <= a
    /\ SegEnd(hdrs[last]) > a

\* The result of getSegmentForAddress(a) with the cache slot at last:
\* the returned index into the PT_LOAD group (0 for nullptr), the new cache
\* slot, and how.
SegmentForAddress(ph, last, a) ==
    IF CacheHit(GetSegments(ph, "PT_LOAD"), last, a)
    THEN [ret |-> last, last |-> last, how |-> "cache"]
    ELSE LET hdrs == GetSegments(ph, "PT_LOAD")
             pos == LowerBound(hdrs, 0, Len(hdrs), a)
         IN  IF pos # Len(hdrs) + 1 /\ hdrs[pos].p_vaddr <= a
             THEN [ret |-> pos, last |-> pos, how |-> "search"]
             ELSE [ret |-> 0, last |-> last, how |-> "miss"]

\* Object::endVA: programHeaders.at(PT_LOAD) throws when the image has no
\* PT_LOAD header (the map then has no such key).
EndVADefined(ph) == "PT_LOAD" \in DOMAIN ph
EndVA(ph) == LET loadable == ph["PT_LOAD"] IN SegEnd(loadable[Len(loadable)])

NoSegCall == [called |-> FALSE, a |-> 0, ret |-> 0, how |-> "none", before |-> 0]

InitSegVars ==
    /\ \E raw \in RawLoadLists : programHeaders \in ConstructProgramHeaders(raw)
    /\ lastSegmentForAddress = 0
    /\ segCall = NoSegCall

IdleSegVars ==
    /\ programHeaders = <<>>
    /\ lastSegmentForAddress = 0
    /\ segCall = NoSegCall

GetSegmentForAddress(a) ==
    LET r == SegmentForAddress(programHeaders, lastSegmentForAddress, a)
    IN  /\ lastSegmentForAddress' = r.last
        /\ segCall' = [called |-> TRUE, a |-> a, ret |-> r.ret, how |-> r.how,
                       before |-> lastSegmentForAddress]
        /\ UNCHANGED programHeaders

NextSeg == \E a \in Addr : GetSegmentForAddress(a)

(***************************************************************************)
(* PART 2.  Section headers, getSection(name, type) and Section::io().     *)
(*                                                                         *)
(* A name is the sequence of its characters, so that the prefix test       *)
(* name.rfind(".debug_", 0) == 0, the rewrite ".z" + name.substr(1) and    *)
(* the suffix test against ".dwo" act on characters as the code does.      *)
(***************************************************************************)
VARIABLES
    sectionHeaders,   \* 0 .. n-1 -> Section; sectionHeaders[0] is the null section
    namedSection,     \* name -> index, as the constructor fills it
    io_,              \* 0 .. n-1 -> the cached reader of Section::io(), or unset
    secCall           \* the last getSection / Section::io() call and its result

secVars == <<sectionHeaders, namedSection, io_, secCall>>

MaxSect == 3

DebugPrefix == <<".", "d", "e", "b", "u", "g", "_">>
ZdebugPrefix == <<".", "z", "d", "e", "b", "u", "g", "_">>
dwosuffix == <<".", "d", "w", "o">>
NameDynamic == <<".", "d", "y", "n", "a", "m", "i", "c">>

\* name.rfind(prefix, 0) == 0
StartsWith(name, prefix) ==
    /\ Len(name) >= Len(prefix)
    /\ SubSeq(name, 1, Len(prefix)) = prefix

\* std::equal(dwosuffix.rbegin(), dwosuffix.rend(), name.rbegin()), from the
\* k-th character from the back on.  The three-iterator std::equal does not
\* know where name ends: for a name shorter than ".dwo" whose characters all
\* match, it reads name.rbegin()[Len(name)], a byte in front of the string
\* (undefined behaviour), and the comparison may come out either way.
RECURSIVE EqualFromBack(_, _)
EqualFromBack(name, k) ==
    IF k = Len(dwosuffix) THEN {TRUE}
    ELSE IF k >= Len(name) THEN {TRUE, FALSE}
    ELSE IF name[Len(name) - k] = dwosuffix[Len(dwosuffix) - k]
         THEN EqualFromBack(name, k + 1)
         ELSE {FALSE}

EndsWithDwo(name) == EqualFromBack(name, 0)

\* Section::operator bool: a section of type SHT_NULL is "null".
IsSection(sec) == sec.sh_type # "SHT_NULL"

\* The first test of getSection: the named section, when its type is accepted.
ExactMatch(secs, named, name, type) ==
    /\ name \in DOMAIN named
    /\ \/ secs[named[name]].sh_type = type
       \/ type = "SHT_NULL"

\* Object::getSection(name, type): the set of indices it may return (one,
\* unless the suffix test reads out of bounds).
RECURSIVE GetSection(_, _, _, _)
GetSection(secs, named, name, type) ==
    IF ExactMatch(secs, named, name, type) THEN {named[name]}
    ELSE LET compressed ==
                 IF StartsWith(name, DebugPrefix)
                 THEN GetSection(secs, named, <<".", "z">> \o Tail(name), type)
                 ELSE {}
             viaDwo ==
                 UNION { IF ~eq
                         THEN GetSection(secs, named, name \o dwosuffix, type)
                         ELSE {0} : eq \in EndsWithDwo(name) }
         IN  {c \in compressed : IsSection(secs[c])}
                 \cup (IF compressed = {} \/ \E c \in compressed : ~IsSection(secs[c])
                       THEN viaDwo ELSE {})

\* namedSection[name] = secid++ over the headers in order: the last section
\* of a name wins.  Nothing is entered when e_shstrndx is SHN_UNDEF.
BuildNamedSection(secs, hasShstr) ==
    IF ~hasShstr THEN <<>>
    ELSE [ nm \in {secs[i].name : i \in DOMAIN secs} |->
             CHOOSE i \in DOMAIN secs :
                 /\ secs[i].name = nm
                 /\ \A j \in DOMAIN secs : secs[j].name = nm => j <= i ]

\* The 8 bytes after "ZLIB", most significant first: sz <<= 8; sz |= sig[i].
RECURSIVE BigEndian(_, _)
BigEndian(bytes, n) ==
    IF n = 0 THEN 0 ELSE BigEndian(bytes, n - 1) * 256 + bytes[n]

SizeofChdr == 24
SizeofSig == 12

NullReader == [kind |-> "null", size |-> 0, off |-> 0, len |-> 0]

\* The reader Section::io() builds for a section whose io_ is unset, in a
\* build WITH_ZLIB.
SectionReader(sec) ==
    IF sec.sh_type = "SHT_NULL" THEN NullReader
    ELSE IF sec.compressed
    THEN [kind |-> "inflate", size |-> sec.ch_size,
          off |-> SizeofChdr, len |-> sec.sh_size - SizeofChdr]
    ELSE IF StartsWith(sec.name, ZdebugPrefix)
    THEN IF sec.magic = "ZLIB"
         THEN [kind |-> "inflate", size |-> BigEndian(sec.sizeBytes, 8),
               off |-> SizeofSig, len |-> BigEndian(sec.sizeBytes, 8)]
         ELSE NullReader
    ELSE [kind |-> "raw", size |-> sec.sh_size, off |-> 0, len |-> sec.sh_size]

Unset == [kind |-> "unset", size |-> 0, off |-> 0, len |-> 0]

SectTypes == {"SHT_NULL", "SHT_PROGBITS", "SHT_NOBITS"}

NameDebugInfo == DebugPrefix \o <<"i">>
NameZdebugInfo == ZdebugPrefix \o <<"i">>
NameDwo == <<"d", "w", "o">>

SectNames ==
    { NameDebugInfo, NameZdebugInfo, NameDebugInfo \o dwosuffix,
      NameZdebugInfo \o dwosuffix, NameDwo \o dwosuffix }

QueryNames ==
    { NameDebugInfo, NameZdebugInfo, NameDebugInfo \o dwosuffix, NameDwo, <<>> }

SizeBytesSet == { <<0, 0, 0, 0, 0, 0, 0, 5>>, <<0, 0, 0, 0, 0, 0, 1, 2>> }

\* A section's first bytes are "ZLIB" and a size, or something else (taken
\* as zeros).  SHF_COMPRESSED is looked at first: one content is enough under it.
SectContents ==
    { c \in [flag : BOOLEAN, magic : {"none", "ZLIB"},
             sizeBytes : SizeBytesSet \cup {<<0, 0, 0, 0, 0, 0, 0, 0>>}] :
        /\ c.flag => c.magic = "none"
        /\ c.magic = "none" <=> c.sizeBytes = <<0, 0, 0, 0, 0, 0, 0, 0>> }

PlainContents == { c \in SectContents : ~c.flag /\ c.magic = "none" }

Section(names, contents) ==
    { [name |-> nm, sh_type |-> ty, compressed |-> cc.flag, magic |-> cc.magic,
       sizeBytes |-> cc.sizeBytes, ch_size |-> 7, sh_size |-> 40] :
        nm \in names, ty \in SectTypes, cc \in contents }

\* The default-constructed Section: the null section.
NullSection ==
    [name |-> <<>>, sh_type |-> "SHT_NULL", compressed |-> FALSE, magic |-> "none",
     sizeBytes |-> <<0, 0, 0, 0, 0, 0, 0, 0>>, ch_size |-> 0, sh_size |-> 0]

SectionTables(sections) ==
    UNION { { [i \in 0 .. n |-> IF i = 0 THEN NullSection ELSE t[i]] :
                t \in [1 .. n -> sections] } : n \in 0 .. MaxSect - 1 }

NoSecCall ==
    [op |-> "none", name |-> <<>>, type |-> "SHT_NULL", ret |-> 0, reader |-> Unset,
     cached |-> FALSE]

InitSecVars(sections) ==
    /\ sectionHeaders \in SectionTables(sections)
    /\ \E hasShstr \in BOOLEAN :
           namedSection = BuildNamedSection(sectionHeaders, hasShstr)
    /\ io_ = [i \in DOMAIN sectionHeaders |-> Unset]
    /\ secCall = NoSecCall

IdleSecVars ==
    /\ sectionHeaders = <<>>
    /\ namedSection = <<>>
    /\ io_ = <<>>
    /\ secCall = NoSecCall

CallGetSection(name, type) ==
    /\ \E r \in GetSection(sectionHeaders, namedSection, name, type) :
           secCall' = [op |-> "getSection", name |-> name, type |-> type, ret |-> r,
                       reader |-> Unset, cached |-> FALSE]
    /\ UNCHANGED <<sectionHeaders, namedSection, io_>>

CallSectionIo(i) ==
    /\ io_' = IF io_[i] # Unset THEN io_
              ELSE [io_ EXCEPT ![i] = SectionReader(sectionHeaders[i])]
    /\ secCall' = [op |-> "io", name |-> sectionHeaders[i].name,
                   type |-> sectionHeaders[i].sh_type, ret |-> i,
                   reader |-> io_'[i], cached |-> io_[i] # Unset]
    /\ UNCHANGED <<sectionHeaders, namedSection>>

NextSec == \E name \in QueryNames, type \in SectTypes : CallGetSection(name, type)

NextIo == \E i \in DOMAIN sectionHeaders : CallSectionIo(i)

(***************************************************************************)
(* PART 3.  Object::getDebug: the latch, companion discovery and prelink   *)
(* compensation.                                                           *)
(*                                                                         *)
(* The file system and debuginfod are outside the program: what each       *)
(* candidate lookup finds is chosen when the one discovery runs.  Every    *)
(* candidate file that loads holds the image debugFile.                    *)
(***************************************************************************)
VARIABLES
    context,       \* options.noExtDebug, debug (a log sink is set), verbose
    debugLoaded,   \* the latch
    debugObject,   \* the companion Object, or NoObject
    debugFile,     \* the image a companion candidate holds: sections, raw headers
    debugLog       \* history of the getDebug calls made so far

debugVars == <<context, debugLoaded, debugObject, debugFile, debugLog>>

MaxDirs == 2
MaxDebugPhdr == 2
MaxCalls == 2

NoSource == [m |-> "none", i |-> 0]
NoObject == [src |-> NoSource]

\* verbose 0, 1 and 2 (2 stands for every higher level); dirs is the length
\* of getDebugDirectories().
Contexts(ndirs) == [noExtDebug : BOOLEAN, debug : BOOLEAN, verbose : {0, 1, 2}, dirs : ndirs]

\* One configured debug directory, as the discovery sees it: whether it is a
\* readable directory; whether <dir>/<basename>.debug is readable and loads
\* as ELF; whether <dir>/<debuglink name> is readable.
DebugDirs == [usable : BOOLEAN, nameFile : {"none", "bad", "elf"}, linkAccess : BOOLEAN]

Environments(n) ==
    [ dirs : [1 .. n -> DebugDirs],
      buildId : {"none", "miss", "found"},
      debuglink : {"none", "miss", "image", "execdir"},
      debuginfod : {"off", "miss", "elf", "bad"} ]

\* Step 1 from directory i on: <dir>/<basename>.debug in each usable
\* directory; a candidate that does not load is logged and skipped.
RECURSIVE ByExecName(_, _, _)
ByExecName(dirs, i, tried) ==
    IF i > Len(dirs) THEN [src |-> NoSource, tried |-> tried]
    ELSE IF dirs[i].usable /\ dirs[i].nameFile # "none"
    THEN LET t == Append(tried, [m |-> "name", i |-> i])
         IN  IF dirs[i].nameFile = "elf"
             THEN [src |-> [m |-> "name", i |-> i], tried |-> t]
             ELSE ByExecName(dirs, i + 1, t)
    ELSE ByExecName(dirs, i + 1, tried)

\* Step 2: the first GNU build-id note, resolved by context.getDebugImage.
ByBuildId(env, tried) ==
    IF env.buildId = "none" THEN [src |-> NoSource, tried |-> tried]
    ELSE [src |-> IF env.buildId = "found" THEN [m |-> "buildid", i |-> 0] ELSE NoSource,
          tried |-> Append(tried, [m |-> "buildid", i |-> 0])]

\* Step 3, first half, from directory i on: for each debug directory where
\* <dir>/<link> is readable, context.getDebugImage(link); stop at a hit.
RECURSIVE ByLinkInDirs(_, _, _, _)
ByLinkInDirs(dirs, image, i, tried) ==
    IF i > Len(dirs) THEN [src |-> NoSource, tried |-> tried]
    ELSE IF dirs[i].linkAccess
    THEN LET t == Append(tried, [m |-> "link", i |-> i])
         IN  IF image THEN [src |-> [m |-> "link", i |-> i], tried |-> t]
             ELSE ByLinkInDirs(dirs, image, i + 1, t)
    ELSE ByLinkInDirs(dirs, image, i + 1, tried)

\* Step 3: only with a .gnu_debuglink section; the debug directories, then
\* the directory of the original file (a load failure there is caught).
ByDebugLink(env, tried) ==
    IF env.debuglink = "none" THEN [src |-> NoSource, tried |-> tried]
    ELSE LET inDirs == ByLinkInDirs(env.dirs, env.debuglink = "image", 1, tried)
         IN  IF inDirs.src # NoSource THEN inDirs
             ELSE [src |-> IF env.debuglink = "execdir"
                           THEN [m |-> "linkdir", i |-> 0] ELSE NoSource,
                   tried |-> Append(inDirs.tried, [m |-> "linkdir", i |-> 0])]

\* Step 4 (a build with DEBUGINFOD): needs a build ID and a client handle;
\* the Object constructor's exception is not caught here, and a failed fetch
\* (fd < 0) is reported at line 674.
ByDebuginfod(env, tried) ==
    IF env.buildId = "none" \/ env.debuginfod = "off"
    THEN [src |-> NoSource, tried |-> tried, threw |-> FALSE, fetchFailed |-> FALSE]
    ELSE [src |-> IF env.debuginfod = "elf" THEN [m |-> "debuginfod", i |-> 0]
                  ELSE NoSource,
          tried |-> Append(tried, [m |-> "debuginfod", i |-> 0]),
          threw |-> env.debuginfod = "bad",
          fetchFailed |-> env.debuginfod = "miss"]

\* The discovery of the first getDebug call: the source of the companion,
\* the candidates tried in order, whether the by-name path returned it
\* (line 573), whether an exception left getDebug, and whether the
\* debuginfod fetch was made and failed.
Discover(env) ==
    LET s1 == ByExecName(env.dirs, 1, <<>>)
    IN  IF s1.src # NoSource
        THEN [src |-> s1.src, tried |-> s1.tried, early |-> TRUE, threw |-> FALSE,
              fetchFailed |-> FALSE]
        ELSE LET s2 == ByBuildId(env, s1.tried)
                 s3 == IF s2.src = NoSource THEN ByDebugLink(env, s2.tried) ELSE s2
                 s4 == IF s3.src = NoSource THEN ByDebuginfod(env, s3.tried)
                       ELSE [src |-> s3.src, tried |-> s3.tried, threw |-> FALSE,
                             fetchFailed |-> FALSE]
             IN  [src |-> s4.src, tried |-> s4.tried, early |-> FALSE,
                  threw |-> s4.threw, fetchFailed |-> s4.fetchFailed]

\* Object::Object on a companion file, isDebug = true.
LoadDebugObject(src, file) ==
    { [src |-> src, sectionHeaders |-> file.sections,
       namedSection |-> BuildNamedSection(file.sections, TRUE),
       programHeaders |-> ph] : ph \in ConstructProgramHeaders(file.phdrs) }

\* The sh_addr of getSection(".dynamic", SHT_NULL).
DynamicAddr(secs, named) ==
    LET idx == CHOOSE r \in GetSection(secs, named, NameDynamic, "SHT_NULL") : TRUE
    IN  secs[idx].sh_addr

\* The test that guards the prelink compensation (line 697).
NeedsCompensation(d, s, ctx) == d # s /\ ctx.debug

\* Lines 707-712: every section's sh_addr and every program header's
\* p_vaddr of the companion, plus diff, in Elf::Addr arithmetic.
Compensate(obj, diff) ==
    [obj EXCEPT
        !.sectionHeaders =
            [i \in DOMAIN @ |-> [@[i] EXCEPT !.sh_addr = AddWrap(@, diff)]],
        !.programHeaders =
            [t \in DOMAIN @ |->
                [k \in DOMAIN @[t] |-> [@[t][k] EXCEPT !.p_vaddr = AddWrap(@, diff)]]]]

\* Lines 692-714 on a companion just found.
PrelinkAdjust(obj, secs, named, ctx) ==
    LET s == DynamicAddr(secs, named)
        d == DynamicAddr(obj.sectionHeaders, obj.namedSection)
    IN  IF NeedsCompensation(d, s, ctx) THEN Compensate(obj, SubWrap(s, d)) ELSE obj

\* A mutation of the latch test: a failed attempt is retried.
DebugSettledRetry(loaded, obj, ctx) == obj # NoObject \/ ctx.noExtDebug

\* The test at the head of getDebug (line 543).
DebugSettled(loaded, obj, ctx) == loaded \/ ctx.noExtDebug

DebugSection(nm, ty, addr) == [name |-> nm, sh_type |-> ty, sh_addr |-> addr]

\* The section headers the discovery reads: the null section and .dynamic.
DynamicTable(addr) ==
    [i \in 0 .. 1 |-> IF i = 0 THEN DebugSection(<<>>, "SHT_NULL", 0)
                      ELSE DebugSection(NameDynamic, "SHT_NOBITS", addr)]

DebugPhdr == [p_type : SegTypes, p_vaddr : Addr, p_memsz : {1}]

DebugFiles ==
    [ sections : {DynamicTable(d) : d \in 0 .. 1},
      phdrs : UNION {[1 .. n -> DebugPhdr] : n \in 0 .. MaxDebugPhdr} ]

\* Two companion images that differ in where .dynamic is.
PlainDebugFiles ==
    [ sections : {DynamicTable(d) : d \in 0 .. 1},
      phdrs : {<<[p_type |-> "PT_LOAD", p_vaddr |-> 0, p_memsz |-> 1]>>} ]

NoDebugLog ==
    [calls |-> 0, attempts |-> 0, tried |-> <<>>, first |-> NoObject, last |-> NoObject,
     discovered |-> FALSE, loadedBefore |-> FALSE, threw |-> FALSE, crashed |-> FALSE,
     early |-> FALSE, asLoaded |-> NoObject, isDebug |-> FALSE]

InitDebugVars(ndirs, files) ==
    /\ context \in Contexts(ndirs)
    /\ debugLoaded \in BOOLEAN
    /\ debugObject = NoObject
    /\ debugFile \in files
    /\ debugLog = [NoDebugLog EXCEPT !.isDebug = debugLoaded]

IdleDebugVars ==
    /\ context = [noExtDebug |-> FALSE, debug |-> FALSE, verbose |-> 0, dirs |-> 0]
    /\ debugLoaded = FALSE
    /\ debugObject = NoObject
    /\ debugFile = [sections |-> DynamicTable(0), phdrs |-> <<>>]
    /\ debugLog = NoDebugLog

\* What one getDebug call leaves in the history.
LogCall(ret, d, ran, obj, crash) ==
    [debugLog EXCEPT
        !.calls = @ + 1,
        !.attempts = IF ran THEN @ + 1 ELSE @,
        !.tried = IF ran THEN d.tried ELSE @,
        !.first = IF debugLog.calls = 0 THEN ret ELSE @,
        !.last = ret,
        !.discovered = ran,
        !.loadedBefore = debugLoaded,
        !.threw = ran /\ d.threw,
        !.crashed = crash,
        !.early = IF ran THEN d.early ELSE @,
        !.asLoaded = IF ran THEN obj ELSE @]

NoDiscovery ==
    [src |-> NoSource, tried |-> <<>>, early |-> FALSE, threw |-> FALSE,
     fetchFailed |-> FALSE]

\* Object::getDebug().  Without a log sink, lines 681 and 690 (verbose >= 2)
\* and line 674 (any verbose level, after a failed debuginfod fetch) write
\* through the null context.debug: the process is taken to stop there.
GetDebug ==
    /\ ~debugLog.crashed
    /\ debugLog.calls < MaxCalls
    /\ IF DebugSettled(debugLoaded, debugObject, context)
       THEN /\ UNCHANGED <<debugLoaded, debugObject>>
            /\ debugLog' = LogCall(debugObject, NoDiscovery, FALSE, NoObject, FALSE)
       ELSE \E d \in {Discover(env) : env \in Environments(context.dirs)} :
              LET crash == /\ ~d.early /\ ~d.threw /\ ~context.debug
                           /\ \/ context.verbose >= 2
                              \/ context.verbose >= 1 /\ d.fetchFailed
              IN  \E obj \in (IF d.src = NoSource THEN {NoObject}
                              ELSE LoadDebugObject(d.src, debugFile)) :
                    LET final == IF d.early \/ d.src = NoSource \/ crash THEN obj
                                 ELSE PrelinkAdjust(obj, sectionHeaders, namedSection,
                                                    context)
                    IN  /\ debugLoaded' = TRUE
                        /\ debugObject' = final
                        /\ debugLog' = LogCall(final, d, TRUE, obj, crash)
    /\ UNCHANGED <<context, debugFile>>

NextDebug == GetDebug

(***************************************************************************)
(* PART 4.  .dynsym, its two hash tables and findDynamicSymbol.            *)
(*                                                                         *)
(* A 32-bit word is a pair <<high half, low half>> of 16-bit numbers, so   *)
(* that the hashes keep the width of uint32_t.                             *)
(***************************************************************************)
VARIABLES
    dynsym,          \* the entries of .dynsym, entry i at position i + 1
    gnu_hash_,       \* the GnuHash of .gnu.hash, or NoHash
    hash_,           \* the SymHash of .hash, or NoHash
    plainCharSigned, \* whether plain char is signed in this build
    hashCall         \* the last findDynamicSymbol call and its result

hashVars == <<dynsym, gnu_hash_, hash_, plainCharSigned, hashCall>>

MaxDynsym == 3
MaxBuckets == 3
MaxBloom == 2

Half == 65536
ELF_BITS == 64

Add32(x, y) ==
    LET lo == x[2] + y[2]
    IN  <<(x[1] + y[1] + (lo \div Half)) % Half, lo % Half>>
Shl32(x, k) ==
    LET lo == x[2] * (2 ^ k)
    IN  <<(x[1] * (2 ^ k) + (lo \div Half)) % Half, lo % Half>>
\* x % n of a 32-bit word, n small; x >> k, k < 32.
Mod32(x, n) == ((x[1] % n) * (Half % n) + x[2]) % n
Shr32(x, k) ==
    IF k >= 16 THEN <<0, x[1] \div (2 ^ (k - 16))>>
    ELSE <<x[1] \div (2 ^ k),
           (x[2] \div (2 ^ k)) + (x[1] % (2 ^ k)) * (2 ^ (16 - k))>>
RECURSIVE BitXor(_, _, _)
BitXor(a, b, n) ==
    IF n = 0 THEN 0
    ELSE ((a + b) % 2) + 2 * BitXor(a \div 2, b \div 2, n - 1)
Or1(x) == <<x[1], x[2] - (x[2] % 2) + 1>>

\* The value `c` of a plain char of the name, as added to a uint32_t.
CharWord(c, signed) ==
    IF signed /\ c >= 128 THEN <<Half - 1, Half - 256 + c>> ELSE <<0, c>>

ElfHashStep(h, c, signed) ==
    LET s == Add32(Shl32(h, 4), CharWord(c, signed))
        g == s[1] \div 4096
        nib == (s[2] \div 16) % 16
    IN  IF g = 0 THEN s
        ELSE <<s[1] % 4096, s[2] - 16 * nib + 16 * BitXor(nib, g, 4)>>

RECURSIVE ElfHashFrom(_, _, _, _)
ElfHashFrom(h, text, k, signed) ==
    IF k > Len(text) THEN h
    ELSE ElfHashFrom(ElfHashStep(h, text[k], signed), text, k + 1, signed)
elf_hash(text, signed) == ElfHashFrom(<<0, 0>>, text, 1, signed)

RECURSIVE GnuHashFrom(_, _, _)
GnuHashFrom(h, s, k) ==
    IF k > Len(s) THEN h
    ELSE GnuHashFrom(Add32(Add32(Shl32(h, 5), h), <<0, s[k]>>), s, k + 1)
gnu_hash(s) == GnuHashFrom(<<0, 5381>>, s, 1)

Undef == [st_name |-> <<>>, st_shndx |-> "SHN_UNDEF"]
NoHash == [kind |-> "none"]
NotFound(how) == [idx |-> 0, sym |-> Undef, how |-> how]

\* A filter test that looks at the first of the two bits only.
BloomBitsFirstOnly(symhash, shift) == {Mod32(symhash, ELF_BITS)}
BloomBits(symhash, shift) ==
    {Mod32(symhash, ELF_BITS), Mod32(Shr32(symhash, shift), ELF_BITS)}
BloomIndex(symhash, tab) ==
    ((symhash[1] * (Half \div ELF_BITS)) + (symhash[2] \div ELF_BITS)) % tab.bloom_size

ChainEnds(chainhash) == chainhash[2] % 2 # 0

RECURSIVE GnuChainWalk(_, _, _, _, _)
GnuChainWalk(tab, syms, name, symhash, idx) ==
    IF idx >= Len(syms) \/ idx - tab.symoffset \notin DOMAIN tab.chains
    THEN [idx |-> 0, sym |-> Undef, how |-> "read past the table"]
    ELSE LET sym == syms[idx + 1]
             chainhash == tab.chains[idx - tab.symoffset]
         IN  IF Or1(chainhash) = Or1(symhash) /\ sym.st_name = name
             THEN [idx |-> idx, sym |-> sym, how |-> "chain"]
             ELSE IF ChainEnds(chainhash) THEN NotFound("chain")
             ELSE GnuChainWalk(tab, syms, name, symhash, idx + 1)

GnuFindSymbol(tab, syms, name) ==
    LET symhash == gnu_hash(name)
        bloomword == tab.bloom[BloomIndex(symhash, tab)]
        idx == tab.buckets[Mod32(symhash, tab.nbuckets)]
    IN  IF ~(BloomBits(symhash, tab.bloom_shift) \subseteq bloomword)
        THEN NotFound("bloom")
        ELSE IF idx < tab.symoffset THEN NotFound("bucket")
        ELSE GnuChainWalk(tab, syms, name, symhash, idx)

RECURSIVE SymHashWalk(_, _, _, _)
SymHashWalk(tab, syms, name, i) ==
    IF i = 0 THEN NotFound("chain")
    ELSE IF syms[i + 1].st_name = name
         THEN [idx |-> i, sym |-> syms[i + 1], how |-> "chain"]
         ELSE SymHashWalk(tab, syms, name, tab.chains[i])

SymHashFindSymbol(tab, syms, name, signed) ==
    SymHashWalk(tab, syms, name,
                tab.buckets[Mod32(elf_hash(name, signed), tab.nbucket)])

FindDynamicSymbolResult(gnu, sysv, syms, name, signed) ==
    LET found == IF gnu # NoHash THEN GnuFindSymbol(gnu, syms, name)
                 ELSE IF sysv # NoHash
                      THEN SymHashFindSymbol(sysv, syms, name, signed)
                      ELSE NotFound("no table")
    IN  IF found.idx = 0 THEN [found EXCEPT !.sym = Undef] ELSE found

(* The tables as a static linker lays them out (System V gABI, GNU hash    *)
(* section format): entry 0 is the null symbol, the symbols the GNU hash   *)
(* indexes are the entries from symoffset on, grouped by bucket.           *)
NamePool == {<<97>>, <<98>>, <<206, 177>>, <<97, 98, 99, 100>>}
QueryNames4 == NamePool \cup {<<>>, <<99>>, <<51>>, <<115>>}
BloomShifts == {6}

SeqsUpTo(S, n) == UNION {[1 .. k -> S] : k \in 0 .. n}
Syms(names, shndx) ==
    [k \in 1 .. Len(names) |-> [st_name |-> names[k], st_shndx |-> shndx]]
DynsymOf(undefs, defs) ==
    <<Undef>> \o Syms(undefs, "SHN_UNDEF") \o Syms(defs, "SHN_TEXT")

GnuBucket(sym, nbuckets) == Mod32(gnu_hash(sym.st_name), nbuckets)
GroupedByBucket(syms, symoffset, nbuckets) ==
    \A i, j \in symoffset .. (Len(syms) - 1) :
        i < j => GnuBucket(syms[i + 1], nbuckets) <= GnuBucket(syms[j + 1], nbuckets)

GnuTable(syms, symoffset, nbuckets, bloom_size, bloom_shift) ==
    LET n == Len(syms)
        hashed == symoffset .. (n - 1)
        H(i) == gnu_hash(syms[i + 1].st_name)
        word(i) == ((H(i)[1] * (Half \div ELF_BITS)) + (H(i)[2] \div ELF_BITS)) % bloom_size
        bkt(i) == GnuBucket(syms[i + 1], nbuckets)
        last(i) == i = n - 1 \/ bkt(i + 1) # bkt(i)
    IN  [kind |-> "gnu", nbuckets |-> nbuckets, symoffset |-> symoffset,
         bloom_size |-> bloom_size, bloom_shift |-> bloom_shift,
         bloom |-> [w \in 0 .. (bloom_size - 1) |->
                      UNION {BloomBits(H(i), bloom_shift) :
                             i \in {j \in hashed : word(j) = w}}],
         buckets |-> [b \in 0 .. (nbuckets - 1) |->
                      LET s == {i \in hashed : bkt(i) = b}
                      IN  IF s = {} THEN 0
                          ELSE CHOOSE i \in s : \A j \in s : i <= j],
         chains |-> [k \in 0 .. (n - symoffset - 1) |->
                      LET h == H(k + symoffset)
                      IN  <<h[1], h[2] - (h[2] % 2)
                                  + (IF last(k + symoffset) THEN 1 ELSE 0)>>]]

RECURSIVE SysvInsert(_, _, _)
SysvInsert(tab, syms, i) ==
    IF i >= Len(syms) THEN tab
    ELSE LET b == Mod32(elf_hash(syms[i + 1].st_name, FALSE), tab.nbucket)
         IN  SysvInsert([tab EXCEPT !.chains[i] = tab.buckets[b],
                                    !.buckets[b] = i], syms, i + 1)
SysvTable(syms, nbucket) ==
    SysvInsert([kind |-> "sysv", nbucket |-> nbucket, nchain |-> Len(syms),
                buckets |-> [b \in 0 .. (nbucket - 1) |-> 0],
                chains |-> [i \in 0 .. (Len(syms) - 1) |-> 0]], syms, 1)

GnuTables(syms, symoffset) ==
    {GnuTable(syms, symoffset, nb, bs, sh) :
        nb \in {b \in 1 .. MaxBuckets : GroupedByBucket(syms, symoffset, b)},
        bs \in 1 .. MaxBloom, sh \in BloomShifts}
SysvTables(syms) == {SysvTable(syms, nb) : nb \in 1 .. MaxBuckets}

NoHashCall ==
    [called |-> FALSE, name |-> <<>>, idx |-> 0, sym |-> Undef, how |-> "none"]

InitHashVars ==
    /\ \E undefs, defs \in SeqsUpTo(NamePool, MaxDynsym) :
          /\ Len(undefs) + Len(defs) <= MaxDynsym
          /\ dynsym = DynsymOf(undefs, defs)
          /\ gnu_hash_ \in GnuTables(dynsym, 1 + Len(undefs)) \cup {NoHash}
    /\ hash_ \in SysvTables(dynsym) \cup {NoHash}
    /\ plainCharSigned \in BOOLEAN
    /\ hashCall = NoHashCall

IdleHashVars ==
    /\ dynsym = <<Undef>>
    /\ gnu_hash_ = NoHash
    /\ hash_ = NoHash
    /\ plainCharSigned = FALSE
    /\ hashCall = NoHashCall

FindDynamicSymbol(name) ==
    /\ hashCall' = [called |-> TRUE, name |-> name] @@
                   FindDynamicSymbolResult(gnu_hash_, hash_, dynsym, name,
                                           plainCharSigned)
    /\ UNCHANGED <<dynsym, gnu_hash_, hash_, plainCharSigned>>

NextHash == \E name \in QueryNames4 : FindDynamicSymbol(name)

(***************************************************************************)
(* PART 5.  The symbol tables of an image and findSymbolByAddress.         *)
(***************************************************************************)
VARIABLES
    symImage,   \* section flags, .symtab, .dynsym and .gnu_debugdata of the Object
    debugData,  \* the nested Object of .gnu_debugdata once made, else NoImage
    symCall     \* the last findSymbolByAddress call and its result

symVars == <<symImage, debugData, symCall>>

MaxSyms == 2

NoImage == [kind |-> "none"]
SymTypes == {"STT_OBJECT", "STT_FUNC"}
\* A symbol before anything is assigned to it.
UnsetSym ==
    [st_value |-> "unset", st_size |-> "unset", st_shndx |-> "unset",
     st_type |-> "unset"]
NoName == <<>>

TypeRejected(candidate, type) ==
    type # "STT_NOTYPE" /\ candidate.st_type # type
\* A mutation of the end test: "<" for "<=".
SymEndsBeforeStrict(candidate, addr) ==
    AddWrap(candidate.st_size, candidate.st_value) < addr
\* candidate.st_size + candidate.st_value <= addr in Elf::Addr arithmetic.
SymEndsBefore(candidate, addr) ==
    AddWrap(candidate.st_size, candidate.st_value) <= addr

\* The lambda findSym from candidate k of the table on; st is what it has
\* assigned so far to sym, name and haveExactZeroSizeMatch.
RECURSIVE FindSym(_, _, _, _, _, _, _)
FindSym(obj, tname, table, k, st, addr, type) ==
    IF k > Len(table)
    THEN [found |-> FALSE,
          st |-> [st EXCEPT !.sym.st_shndx = 0]]
    ELSE LET candidate == table[k]
             skip == FindSym(obj, tname, table, k + 1, st, addr, type)
             taken == [st EXCEPT !.sym = candidate,
                                 !.name = <<obj.image, tname, k>>]
         IN  IF candidate.st_shndx >= Len(obj.sections) THEN skip
             ELSE IF TypeRejected(candidate, type) THEN skip
             ELSE IF candidate.st_value > addr THEN skip
             ELSE IF SymEndsBefore(candidate, addr)
                  THEN IF candidate.st_size = 0 /\ candidate.st_value = addr
                       THEN FindSym(obj, tname, table, k + 1,
                                    [taken EXCEPT !.have = TRUE], addr, type)
                       ELSE skip
             ELSE IF ~obj.sections[candidate.st_shndx + 1].alloc THEN skip
             ELSE [found |-> TRUE, st |-> taken]

Absent == [found |-> FALSE, sym |-> UnsetSym, name |-> NoName]
Returned(st) == [found |-> TRUE, sym |-> st.sym, name |-> st.name]

\* The image findSymbolByAddress consults after its own tables: the nested
\* Object when it is already there or .gnu_debugdata can be decoded.
NestedOf(obj, cached) ==
    IF cached # NoImage THEN cached ELSE obj.gnu_debugdata

RECURSIVE FindSymbolByAddressIn(_, _, _, _)
FindSymbolByAddressIn(obj, cached, addr, type) ==
    LET st0 == [sym |-> UnsetSym, name |-> NoName, have |-> FALSE]
        r1 == FindSym(obj, ".symtab", obj.symtab, 1, st0, addr, type)
        r2 == FindSym(obj, ".dynsym", obj.dynsym, 1, r1.st, addr, type)
        nested == NestedOf(obj, cached)
        debugSym == FindSymbolByAddressIn(nested, NoImage, addr, type)
    IN  IF r1.found THEN Returned(r1.st)
        ELSE IF r2.found THEN Returned(r2.st)
        ELSE IF nested # NoImage /\ debugSym.found THEN debugSym
        ELSE IF r2.st.have THEN Returned(r2.st)
        ELSE Absent

\* The images: the Object has the null section and one SHF_ALLOC section,
\* the image in .gnu_debugdata has its own three sections.
Sym == [st_value : Addr, st_size : {0, 2}, st_shndx : 0 .. 2, st_type : SymTypes]
PrimarySections == <<[alloc |-> FALSE], [alloc |-> TRUE]>>
NestedSections == <<[alloc |-> FALSE], [alloc |-> FALSE], [alloc |-> TRUE]>>
Image(name, sections, symtab, dynsymtab, nested) ==
    [kind |-> "image", image |-> name, sections |-> sections,
     symtab |-> symtab, dynsym |-> dynsymtab, gnu_debugdata |-> nested]
NoSymCall ==
    [called |-> FALSE, addr |-> 0, type |-> "STT_NOTYPE", ret |-> Absent]

InitSymVars ==
    /\ \E ls, ld, ln \in 0 .. MaxSyms :
          /\ ls + ld + ln <= MaxSyms
          /\ \E s \in [1 .. ls -> Sym], d \in [1 .. ld -> Sym],
                m \in [1 .. ln -> Sym], hasNested \in BOOLEAN :
                /\ ln > 0 => hasNested
                /\ symImage =
                     Image("primary", PrimarySections, s, d,
                           IF hasNested
                           THEN Image("nested", NestedSections, m, <<>>, NoImage)
                           ELSE NoImage)
    /\ debugData = NoImage
    /\ symCall = NoSymCall

IdleSymVars ==
    /\ symImage = Image("primary", PrimarySections, <<>>, <<>>, NoImage)
    /\ debugData = NoImage
    /\ symCall = NoSymCall

\* debugData is made when both of the Object's tables have failed.
FindSymbolByAddress(addr, type) ==
    LET st0 == [sym |-> UnsetSym, name |-> NoName, have |-> FALSE]
        r1 == FindSym(symImage, ".symtab", symImage.symtab, 1, st0, addr, type)
        r2 == FindSym(symImage, ".dynsym", symImage.dynsym, 1, r1.st, addr, type)
    IN  /\ symCall' = [called |-> TRUE, addr |-> addr, type |-> type,
                       ret |-> FindSymbolByAddressIn(symImage, debugData, addr, type)]
        /\ debugData' = IF r1.found \/ r2.found THEN debugData
                        ELSE NestedOf(symImage, debugData)
        /\ UNCHANGED symImage

NextSym ==
    \E addr \in Addr, type \in {"STT_NOTYPE", "STT_FUNC"} :
        FindSymbolByAddress(addr, type)

(***************************************************************************)
(* PART 6.  The PT_NOTE segments of an Object and Notes::iterator.         *)
(***************************************************************************)
VARIABLES
    noteSegments,  \* getSegments(PT_NOTE): p_filesz and the notes in the bytes
    noteIter,      \* the iterator: phdrsi, offset, curNote
    visited        \* the positions <<segment, offset>> the iterator stood on

noteVars == <<noteSegments, noteIter, visited>>

MaxNoteSegs == 2
MaxNotes == 2
SizeofNhdr == 12

roundup2(x, n) == ((x + n - 1) \div n) * n

Nhdr == [n_namesz : {1, 4, 5}, n_descsz : {0, 3, 4}]
NoNote == [n_namesz |-> 0, n_descsz |-> 0]

\* The bytes one note takes in its segment, and the offset of note k.
NoteSize(note) ==
    roundup2(roundup2(SizeofNhdr + note.n_namesz, 4) + note.n_descsz, 4)
RECURSIVE NoteOffset(_, _)
NoteOffset(notes, k) ==
    IF k = 1 THEN 0 ELSE NoteOffset(notes, k - 1) + NoteSize(notes[k - 1])
NoteSegment(notes) ==
    [p_filesz |-> NoteOffset(notes, Len(notes) + 1), notes |-> notes]
NoteSegmentLists ==
    SeqsUpTo({NoteSegment(notes) : notes \in SeqsUpTo(Nhdr, MaxNotes)},
             MaxNoteSegs)

\* readNote(): the header at `offset` of the view of the segment; the read
\* fails when the view has no header there.
ReadNote(seg, offset) ==
    IF offset + SizeofNhdr > seg.p_filesz
    THEN [ok |-> FALSE, note |-> NoNote]
    ELSE IF \E k \in 1 .. Len(seg.notes) : NoteOffset(seg.notes, k) = offset
         THEN [ok |-> TRUE,
               note |-> seg.notes[CHOOSE k \in 1 .. Len(seg.notes) :
                                      NoteOffset(seg.notes, k) = offset]]
         ELSE [ok |-> TRUE, note |-> NoNote]

NoIter ==
    [made |-> FALSE, phdrsi |-> 1, offset |-> 0, curNote |-> NoNote,
     threw |-> FALSE]
\* Notes::end(): past the last segment, offset 0.
IsEnd(it, phdrs) == it.phdrsi = Len(phdrs) + 1 /\ it.offset = 0

\* startSection() and readNote() on segment i.
EnterSegment(phdrs, i) ==
    LET r == ReadNote(phdrs[i], 0)
    IN  [made |-> TRUE, phdrsi |-> i, offset |-> 0, curNote |-> r.note,
         threw |-> ~r.ok]

NextOffset(it) ==
    roundup2(roundup2(it.offset + SizeofNhdr + it.curNote.n_namesz, 4)
             + it.curNote.n_descsz, 4)
SegmentExhausted(newOff, seg) == newOff >= seg.p_filesz

InitNoteVars ==
    /\ noteSegments \in NoteSegmentLists
    /\ noteIter = NoIter
    /\ visited = <<>>

IdleNoteVars ==
    /\ noteSegments = <<>>
    /\ noteIter = NoIter
    /\ visited = <<>>

\* Notes::begin(): the iterator constructor with begin = true.
NotesBegin ==
    /\ ~noteIter.made
    /\ IF Len(noteSegments) >= 1
       THEN /\ noteIter' = EnterSegment(noteSegments, 1)
            /\ visited' = <<<<1, 0>>>>
       ELSE /\ noteIter' = [NoIter EXCEPT !.made = TRUE]
            /\ visited' = visited
    /\ UNCHANGED noteSegments

\* operator++ on an iterator that is not end().
NotesIncrement ==
    /\ noteIter.made /\ ~noteIter.threw
    /\ ~IsEnd(noteIter, noteSegments)
    /\ LET newOff == NextOffset(noteIter)
           i == noteIter.phdrsi
       IN  IF SegmentExhausted(newOff, noteSegments[i])
           THEN IF i + 1 = Len(noteSegments) + 1
                THEN /\ noteIter' = [noteIter EXCEPT !.phdrsi = i + 1,
                                                     !.offset = 0]
                     /\ visited' = visited
                ELSE /\ noteIter' = EnterSegment(noteSegments, i + 1)
                     /\ visited' = Append(visited, <<i + 1, 0>>)
           ELSE LET r == ReadNote(noteSegments[i], newOff)
                IN  /\ noteIter' = [noteIter EXCEPT !.offset = newOff,
                                                    !.curNote = r.note,
                                                    !.threw = ~r.ok]
                    /\ visited' = Append(visited, <<i, newOff>>)
    /\ UNCHANGED noteSegments

NextNote == NotesBegin \/ NotesIncrement

(***************************************************************************)
(* PART 7.  Symbol versions: symbolVersions() and symbolVersion(idx).      *)
(***************************************************************************)
VARIABLES
    verImage,         \* .gnu.version_r, .gnu.version_d and the dynamic tags
    symbolVersions_,  \* the SymbolVersioning once built, else NoVersions
    verCall           \* the last symbolVersion call and its result

verVars == <<verImage, symbolVersions_, verCall>>

MaxAux == 2
MaxVerdef == 1
HiddenBit == 32768

NoSection == [kind |-> "none"]
NoVersions == [kind |-> "null"]
NoTag == [kind |-> "absent"]
VersionNames == {"GLIBC_2.2.5", "LIB_1.0"}
VersionIndexes == {2, 3}

MapPut(map, key, value) ==
    [k \in DOMAIN map \cup {key} |-> IF k = key THEN value ELSE map[k]]

\* The loop over the Vernaux entries of one Verneed.
RECURSIVE ReadVernaux(_, _, _, _)
ReadVernaux(rv, verneed, i, file) ==
    IF i > verneed.vn_cnt THEN rv
    ELSE LET aux == verneed.aux[i]
             filed == IF file \in DOMAIN rv.files THEN rv.files[file] ELSE <<>>
         IN  ReadVernaux(
                 [rv EXCEPT !.versions = MapPut(@, aux.vna_other, aux.vna_name),
                            !.files = MapPut(@, file, Append(filed, aux.vna_other))],
                 verneed, i + 1, file)

\* The loop over cnt Verneed records from record k on.
RECURSIVE ReadVerneed(_, _, _, _)
ReadVerneed(rv, records, k, cnt) ==
    IF cnt = 0 THEN rv
    ELSE LET file == records[k].vn_file
             opened == [rv EXCEPT !.files =
                            IF file \in DOMAIN @ THEN @ ELSE MapPut(@, file, <<>>)]
         IN  ReadVerneed(ReadVernaux(opened, records[k], 1, file),
                         records, k + 1, cnt - 1)

\* The loop over cnt Verdef records from record k on.
RECURSIVE ReadVerdef(_, _, _, _)
ReadVerdef(rv, records, k, cnt) ==
    IF cnt = 0 THEN rv
    ELSE LET verdef == records[k]
             first == IF verdef.vd_cnt >= 1
                      THEN [rv EXCEPT !.versions =
                                MapPut(@, verdef.vd_ndx, verdef.aux[1])]
                      ELSE rv
             second == IF verdef.vd_cnt >= 2
                       THEN [first EXCEPT !.predecessors =
                                 MapPut(@, verdef.vd_ndx, verdef.aux[2])]
                       ELSE first
         IN  ReadVerdef(second, records, k + 1, cnt - 1)

EmptyVersions ==
    [kind |-> "versions", versions |-> <<>>, predecessors |-> <<>>,
     files |-> <<>>]

\* symbolVersions(): the cached table, or the table built from the image;
\* dynamic.at(tag) throws when the image has no entry of that tag.
BuildVersions(image) ==
    LET needThrows == image.verneed # NoSection /\ image.DT_VERNEEDNUM = NoTag
        afterNeed == IF image.verneed = NoSection THEN EmptyVersions
                     ELSE ReadVerneed(EmptyVersions, image.verneed.records, 1,
                                      image.DT_VERNEEDNUM.d_val)
        defThrows == image.verdef # NoSection /\ image.DT_VERDEFNUM = NoTag
        afterDef == IF image.verdef = NoSection THEN afterNeed
                    ELSE ReadVerdef(afterNeed, image.verdef.records, 1,
                                    image.DT_VERDEFNUM.d_val)
    IN  IF needThrows \/ defThrows
        THEN [threw |-> TRUE, rv |-> NoVersions]
        ELSE [threw |-> FALSE, rv |-> afterDef]

SymbolVersions(image, cached) ==
    IF cached # NoVersions THEN [threw |-> FALSE, rv |-> cached]
    ELSE BuildVersions(image)

LowBits(idx) == idx % HiddenBit

SymbolVersionResult(image, cached, idx) ==
    LET vi == SymbolVersions(image, cached)
        i == LowBits(idx)
    IN  IF vi.threw THEN [kind |-> "threw", name |-> ""]
        ELSE IF i >= 2
             THEN IF i \in DOMAIN vi.rv.versions
                  THEN [kind |-> "name", name |-> vi.rv.versions[i]]
                  ELSE [kind |-> "threw", name |-> ""]
             ELSE [kind |-> "absent", name |-> ""]

\* The images: at most one Verneed of at most MaxAux entries, at most
\* MaxVerdef Verdef records; a tag that is present counts the records.
Vernaux == [vna_other : VersionIndexes, vna_name : VersionNames]
Verneeds ==
    {[vn_file |-> "libc.so.6", vn_cnt |-> Len(aux), aux |-> aux] :
        aux \in SeqsUpTo(Vernaux, MaxAux)}
Verdefs ==
    {[vd_ndx |-> ndx, vd_cnt |-> Len(aux), aux |-> aux] :
        ndx \in VersionIndexes, aux \in SeqsUpTo(VersionNames, 2)}
VersionSection(records) == [kind |-> "section", records |-> records]
Tag(section) ==
    IF section = NoSection THEN {NoTag}
    ELSE {NoTag, [kind |-> "tag", d_val |-> Len(section.records)]}
QueryIdx == {0, 1, 2, 3, HiddenBit, HiddenBit + 1, HiddenBit + 2, HiddenBit + 3}

NoVerCall == [called |-> FALSE, idx |-> 0, ret |-> [kind |-> "absent", name |-> ""]]

InitVerVars ==
    /\ \E r \in {NoSection} \cup {VersionSection(<<v>>) : v \in Verneeds},
          d \in {NoSection} \cup {VersionSection(s) : s \in SeqsUpTo(Verdefs, MaxVerdef)} :
          \E nt \in Tag(r), dt \in Tag(d) :
              verImage = [verneed |-> r, verdef |-> d,
                          DT_VERNEEDNUM |-> nt, DT_VERDEFNUM |-> dt]
    /\ symbolVersions_ = NoVersions
    /\ verCall = NoVerCall

IdleVerVars ==
    /\ verImage = [verneed |-> NoSection, verdef |-> NoSection,
                   DT_VERNEEDNUM |-> NoTag, DT_VERDEFNUM |-> NoTag]
    /\ symbolVersions_ = NoVersions
    /\ verCall = NoVerCall

SymbolVersion(idx) ==
    LET vi == SymbolVersions(verImage, symbolVersions_)
    IN  /\ verCall' = [called |-> TRUE, idx |-> idx,
                       ret |-> SymbolVersionResult(verImage, symbolVersions_, idx)]
        /\ symbolVersions_' = IF vi.threw THEN symbolVersions_ ELSE vi.rv
        /\ UNCHANGED verImage

NextVer == \E idx \in QueryIdx : SymbolVersion(idx)

(***************************************************************************)
(* PART 8.  Object::Object: reading the section headers.                   *)
(* Offsets and sizes of the file are counted in units of sizeof (Shdr).    *)
(***************************************************************************)
VARIABLES
    elfHeader,        \* e_shoff, e_shnum, e_shentsize, e_shstrndx
    ioSize,           \* io->size()
    firstShdr,        \* sh_size and sh_link of the header at e_shoff
    constructed       \* the constructor's outcome and sectionHeaders.size()

ctorVars == <<elfHeader, ioSize, firstShdr, constructed>>

MaxFile == 3
MaxShnum == 2
IntBits == 3
XwordBits == IntBits + 1
SHN_UNDEF == 0
SHN_XINDEX == 65535

\* The conversion of an Elf::Xword to int (headerCount, lines 213 and 224).
ToInt(v) ==
    LET m == v % (2 ^ IntBits)
    IN  IF m >= 2 ^ (IntBits - 1) THEN m - 2 ^ IntBits ELSE m

\* Section::Section(elf, off): elf->io->readObj(off, &shdr) needs a whole
\* header inside the file.
HeaderReadable(off, size) == off + 1 <= size

NotConstructed == [state |-> "none", sectionHeaders |-> 0]
Threw == [state |-> "threw", sectionHeaders |-> 0]

\* The loop of lines 221-229 from header i at offset off: the number of
\* headers read, -1 when a read or reserve() throws.  A negative count
\* reaches reserve() as a huge size_t (std::length_error).
RECURSIVE ReadSectionHeaders(_, _, _, _, _, _)
ReadSectionHeaders(hdr, size, first, i, off, headerCount) ==
    IF i >= headerCount THEN i
    ELSE IF ~HeaderReadable(off, size) THEN -1
    ELSE LET count == IF i = 0 /\ hdr.e_shnum = 0 THEN ToInt(first.sh_size)
                      ELSE headerCount
         IN  IF count < 0 THEN -1
             ELSE ReadSectionHeaders(hdr, size, first, i + 1,
                                     off + hdr.e_shentsize, count)

\* Lines 208-229: the headers read from the file, -1 when reading throws,
\* 0 when e_shoff is outside the file.
HeadersRead(hdr, size, first) ==
    IF hdr.e_shoff < size
    THEN LET headerCount == IF hdr.e_shnum = 0 /\ hdr.e_shentsize # 0 THEN 1
                            ELSE hdr.e_shnum
         IN  ReadSectionHeaders(hdr, size, first, 0, hdr.e_shoff, headerCount)
    ELSE 0

\* Lines 230-232 and 263-266: sectionHeaders.size() after the constructor,
\* with the default null section when nothing was read.
SectionHeaderCount(hdr, size, first) ==
    LET n == HeadersRead(hdr, size, first)
    IN  IF n = 0 THEN 1 ELSE n

\* Lines 234-246: the index of the section-name string table, when the
\* section names are read at all.
\* sectionHeaders[0] is the default null section (sh_link 0) when no header
\* was read.
ShstrSec(hdr, first, read) ==
    IF hdr.e_shstrndx = SHN_XINDEX
    THEN (IF read = 0 THEN 0 ELSE first.sh_link)
    ELSE hdr.e_shstrndx
ReadsNames(hdr, size) == hdr.e_shoff < size /\ hdr.e_shstrndx # SHN_UNDEF

\* The outcomes of the constructor.  sectionHeaders[shstrSec] with an index
\* past the end is undefined: the constructor may complete or fail.
ConstructorOutcomes(hdr, size, first) ==
    LET n == SectionHeaderCount(hdr, size, first)
        done == [state |-> "ok", sectionHeaders |-> n]
    IN  IF n < 0 THEN {Threw}
        ELSE IF /\ ReadsNames(hdr, size)
                /\ ShstrSec(hdr, first, HeadersRead(hdr, size, first)) >= n
             THEN {done, Threw}
             ELSE {done}

InitCtorVars ==
    /\ elfHeader \in [e_shoff : 0 .. MaxFile, e_shnum : 0 .. MaxShnum,
                      e_shentsize : {0, 1},
                      e_shstrndx : {SHN_UNDEF, 1, SHN_XINDEX}]
    /\ ioSize \in 1 .. MaxFile
    /\ firstShdr \in [sh_size : 0 .. (2 ^ XwordBits - 1), sh_link : {1, MaxShnum + 1}]
    /\ constructed = NotConstructed

IdleCtorVars ==
    /\ elfHeader = [e_shoff |-> 0, e_shnum |-> 0, e_shentsize |-> 0,
                    e_shstrndx |-> SHN_UNDEF]
    /\ ioSize = 1
    /\ firstShdr = [sh_size |-> 0, sh_link |-> 1]
    /\ constructed = NotConstructed

\* Object::Object(context, io, isDebug), as far as the section headers.
Construct ==
    /\ constructed = NotConstructed
    /\ constructed' \in ConstructorOutcomes(elfHeader, ioSize, firstShdr)
    /\ UNCHANGED <<elfHeader, ioSize, firstShdr>>

NextCtor == Construct

(***************************************************************************)
(* PART 9.  The hash lookups step by step, over tables of any contents.    *)
(* One step is one pass of the loop of SymHash::findSymbol or of           *)
(* GnuHash::findSymbol.                                                    *)
(***************************************************************************)
VARIABLES
    lookupSyms,     \* .dynsym: entry 0 is the null symbol
    lookupTable,    \* the .hash or .gnu_hash section the lookup uses
    lookup          \* the lookup in progress: its name, the index it stands at,
                    \* its result, and the parity of the passes it has made

lookupVars == <<lookupSyms, lookupTable, lookup>>

LookupSymbols == 2
STN_UNDEF == 0
LookupNames == {<<97>>, <<98>>}

\* The indexes a table word can hold: those of .dynsym and one past it.
TableIndexes == 0 .. (LookupSymbols + 1)

\* Every .hash section for the symbols: nbucket buckets and one chain word
\* per symbol, each holding any index.
AnySysvTables ==
    UNION {[kind : {"sysv"}, nbucket : {nb},
            buckets : [0 .. (nb - 1) -> TableIndexes],
            chains : [0 .. LookupSymbols -> TableIndexes]] : nb \in 1 .. 2}

\* The chain words a .gnu_hash section can hold here: the hash of a name,
\* with the low bit clear or set.
ChainWords ==
    UNION {{<<gnu_hash(n)[1], gnu_hash(n)[2] - (gnu_hash(n)[2] % 2)>>, Or1(gnu_hash(n))} :
           n \in LookupNames}

\* Every .gnu_hash section for the symbols: one Bloom word that is all ones
\* or all zeroes, buckets holding any index, any chain words.
AnyGnuTables ==
    UNION {[kind : {"gnu"}, nbuckets : {nb}, symoffset : {so},
            bloom_size : {1}, bloom_shift : BloomShifts,
            bloom : [{0} -> {{}, 0 .. (ELF_BITS - 1)}],
            buckets : [0 .. (nb - 1) -> TableIndexes],
            chains : [0 .. (LookupSymbols - so) -> ChainWords]] :
           nb \in 1 .. 2, so \in 1 .. LookupSymbols}

NoLookup == [state |-> "idle", name |-> <<>>, idx |-> 0, ret |-> 0, pass |-> 0]

\* syms->readObj<Sym>(idx * sizeof (Sym)) reads inside the section.
SymReadable(syms, idx) == idx < Len(syms)

InitLookupVars ==
    /\ lookupSyms \in {DynsymOf(<<>>, names) : names \in [1 .. LookupSymbols -> LookupNames]}
    /\ lookupTable \in AnySysvTables \cup AnyGnuTables
    /\ lookup = NoLookup

IdleLookupVars ==
    /\ lookupSyms = <<Undef>>
    /\ lookupTable = NoHash
    /\ lookup = NoLookup

\* findDynamicSymbol(name) up to the first pass of the loop: the bucket of
\* SymHash::findSymbol (line 736), or the Bloom and symoffset tests of
\* GnuHash::findSymbol (lines 144-158).  The names are ASCII, so the
\* signedness of char does not enter elf_hash.
BeginFindSymbol(name) ==
    /\ lookup.state = "idle"
    /\ lookup' =
         IF lookupTable.kind = "sysv"
         THEN [NoLookup EXCEPT
                 !.state = "walking", !.name = name,
                 !.idx = lookupTable.buckets[Mod32(elf_hash(name, FALSE),
                                                   lookupTable.nbucket)]]
         ELSE LET symhash == gnu_hash(name)
                  idx == lookupTable.buckets[Mod32(symhash, lookupTable.nbuckets)]
              IN  IF \/ ~(BloomBits(symhash, lookupTable.bloom_shift)
                            \subseteq lookupTable.bloom[BloomIndex(symhash, lookupTable)])
                     \/ idx < lookupTable.symoffset
                  THEN [NoLookup EXCEPT !.state = "returned", !.name = name]
                  ELSE [NoLookup EXCEPT !.state = "walking", !.name = name,
                                        !.idx = idx]
    /\ UNCHANGED <<lookupSyms, lookupTable>>

\* One pass of the for loop of SymHash::findSymbol (lines 737-742).
SymHashStep ==
    /\ lookup.state = "walking" /\ lookupTable.kind = "sysv"
    /\ lookup' =
         IF lookup.idx = STN_UNDEF
         THEN [lookup EXCEPT !.state = "returned", !.ret = 0]
         ELSE IF ~SymReadable(lookupSyms, lookup.idx)
         THEN [lookup EXCEPT !.state = "threw"]
         ELSE IF lookupSyms[lookup.idx + 1].st_name = lookup.name
         THEN [lookup EXCEPT !.state = "returned", !.ret = lookup.idx]
         ELSE [lookup EXCEPT !.idx = lookupTable.chains[lookup.idx],
                             !.pass = 1 - @]
    /\ UNCHANGED <<lookupSyms, lookupTable>>

\* One pass of the for (;;) loop of GnuHash::findSymbol (lines 159-168).
GnuHashStep ==
    /\ lookup.state = "walking" /\ lookupTable.kind = "gnu"
    /\ lookup' =
         IF ~SymReadable(lookupSyms, lookup.idx)
         THEN [lookup EXCEPT !.state = "threw"]
         ELSE LET chainhash == lookupTable.chains[lookup.idx - lookupTable.symoffset]
              IN  IF /\ Or1(chainhash) = Or1(gnu_hash(lookup.name))
                     /\ lookupSyms[lookup.idx + 1].st_name = lookup.name
                  THEN [lookup EXCEPT !.state = "returned", !.ret = lookup.idx]
                  ELSE IF ChainEnds(chainhash)
                  THEN [lookup EXCEPT !.state = "returned", !.ret = 0]
                  ELSE [lookup EXCEPT !.idx = @ + 1, !.pass = 1 - @]
    /\ UNCHANGED <<lookupSyms, lookupTable>>

LookupStep == SymHashStep \/ GnuHashStep

NextLookup ==
    \/ \E name \in LookupNames : BeginFindSymbol(name)
    \/ SymHashStep
    \/ GnuHashStep

(***************************************************************************)
(* The specifications: one part of the Object at a time.                   *)
(***************************************************************************)
vars == <<segVars, secVars, debugVars, hashVars, symVars, noteVars, verVars, ctorVars, lookupVars>>

InitSeg == InitSegVars /\ IdleSecVars /\ IdleDebugVars /\ IdleHashVars /\ IdleSymVars /\ IdleNoteVars /\ IdleVerVars /\ IdleCtorVars /\ IdleLookupVars
StepSeg == NextSeg /\ UNCHANGED <<secVars, debugVars, hashVars, symVars, noteVars, verVars, ctorVars, lookupVars>>
SpecSeg == InitSeg /\ [][StepSeg]_vars

\* getSection over every table of sections named from SectNames.
InitSec ==
    /\ InitSecVars(Section(SectNames, PlainContents))
    /\ IdleSegVars /\ IdleDebugVars /\ IdleHashVars /\ IdleSymVars /\ IdleNoteVars /\ IdleVerVars /\ IdleCtorVars /\ IdleLookupVars
StepSec == NextSec /\ UNCHANGED <<segVars, debugVars, hashVars, symVars, noteVars, verVars, ctorVars, lookupVars>>
SpecSec == InitSec /\ [][StepSec]_vars

\* Section::io() over every content of a .debug_ and a .zdebug_ section.
InitIo ==
    /\ InitSecVars(Section({NameDebugInfo, NameZdebugInfo}, SectContents))
    /\ IdleSegVars /\ IdleDebugVars /\ IdleHashVars /\ IdleSymVars /\ IdleNoteVars /\ IdleVerVars /\ IdleCtorVars /\ IdleLookupVars
StepIo == NextIo /\ UNCHANGED <<segVars, debugVars, hashVars, symVars, noteVars, verVars, ctorVars, lookupVars>>
SpecIo == InitIo /\ [][StepIo]_vars

\* The primary Object of a discovery: its .dynamic section is what getDebug
\* reads of it.
InitPrimary(addrs) ==
    /\ \E s \in addrs : sectionHeaders = DynamicTable(s)
    /\ namedSection = BuildNamedSection(sectionHeaders, TRUE)
    /\ io_ = [i \in DOMAIN sectionHeaders |-> Unset]
    /\ secCall = NoSecCall
    /\ IdleSegVars /\ IdleHashVars /\ IdleSymVars /\ IdleNoteVars /\ IdleVerVars /\ IdleCtorVars /\ IdleLookupVars

StepDebug == NextDebug /\ UNCHANGED <<segVars, secVars, hashVars, symVars, noteVars, verVars, ctorVars, lookupVars>>

\* Discovery over every list of debug directories, two companion images.
InitLatch == InitDebugVars(0 .. MaxDirs, PlainDebugFiles) /\ InitPrimary(0 .. 1)
SpecLatch == InitLatch /\ [][StepDebug]_vars

\* Prelink compensation over every companion image, one debug directory.
InitDebug == InitDebugVars({1}, DebugFiles) /\ InitPrimary(Addr)
SpecDebug == InitDebug /\ [][StepDebug]_vars

\* findDynamicSymbol over every .dynsym of names from NamePool.
InitHash == InitHashVars /\ IdleSegVars /\ IdleSecVars /\ IdleDebugVars /\ IdleSymVars /\ IdleNoteVars /\ IdleVerVars /\ IdleCtorVars /\ IdleLookupVars
StepHash == NextHash /\ UNCHANGED <<segVars, secVars, debugVars, symVars, noteVars, verVars, ctorVars, lookupVars>>
SpecHash == InitHash /\ [][StepHash]_vars

\* findSymbolByAddress over every image of at most MaxSyms symbols.
InitSym == InitSymVars /\ IdleSegVars /\ IdleSecVars /\ IdleDebugVars /\ IdleHashVars /\ IdleNoteVars /\ IdleVerVars /\ IdleCtorVars /\ IdleLookupVars
StepSym == NextSym /\ UNCHANGED <<segVars, secVars, debugVars, hashVars, noteVars, verVars, ctorVars, lookupVars>>
SpecSym == InitSym /\ [][StepSym]_vars

\* Iteration over the notes of every list of PT_NOTE segments.
InitNote == InitNoteVars /\ IdleSegVars /\ IdleSecVars /\ IdleDebugVars /\ IdleHashVars /\ IdleSymVars /\ IdleVerVars /\ IdleCtorVars /\ IdleLookupVars
StepNote == NextNote /\ UNCHANGED <<segVars, secVars, debugVars, hashVars, symVars, verVars, ctorVars, lookupVars>>
SpecNote == InitNote /\ [][StepNote]_vars

\* symbolVersion over every version table.
InitVer == InitVerVars /\ IdleSegVars /\ IdleSecVars /\ IdleDebugVars /\ IdleHashVars /\ IdleSymVars /\ IdleNoteVars /\ IdleCtorVars /\ IdleLookupVars
StepVer == NextVer /\ UNCHANGED <<segVars, secVars, debugVars, hashVars, symVars, noteVars, ctorVars, lookupVars>>
SpecVer == InitVer /\ [][StepVer]_vars

\* The constructor over every section-header description of a small file.
InitCtor == InitCtorVars /\ IdleSegVars /\ IdleSecVars /\ IdleDebugVars /\ IdleHashVars /\ IdleSymVars /\ IdleNoteVars /\ IdleVerVars /\ IdleLookupVars
StepCtor == NextCtor /\ UNCHANGED <<segVars, secVars, debugVars, hashVars, symVars, noteVars, verVars, lookupVars>>
SpecCtor == InitCtor /\ [][StepCtor]_vars

\* One hash lookup, pass by pass, over every table contents.
InitLookup == InitLookupVars /\ IdleSegVars /\ IdleSecVars /\ IdleDebugVars /\ IdleHashVars /\ IdleSymVars /\ IdleNoteVars /\ IdleVerVars /\ IdleCtorVars
StepLookup == NextLookup /\ UNCHANGED <<segVars, secVars, debugVars, hashVars, symVars, noteVars, verVars, ctorVars>>
SpecLookup == InitLookup /\ [][StepLookup]_vars

\* The same with the lookup's loop running on: a thread inside findSymbol
\* keeps being scheduled, so a pass that can be taken is taken.
SpecLookupFair == SpecLookup /\ WF_vars(StepLookup)


(***************************************************************************)
(* Properties.                                                             *)
(***************************************************************************)
Loads == GetSegments(programHeaders, "PT_LOAD")

\* a lies in [seg.p_vaddr, seg.p_vaddr + seg.p_memsz), in the integers.
InSegment(seg, a) == seg.p_vaddr <= a /\ a < seg.p_vaddr + seg.p_memsz

\* What C1 says of the last call: the covering segment itself is returned,
\* and nothing is returned at or above endVA().
SegmentLookupExact ==
    /\ \A i \in 1 .. Len(Loads) : InSegment(Loads[i], segCall.a) => segCall.ret = i
    /\ EndVADefined(programHeaders) /\ segCall.a >= EndVA(programHeaders)
           => segCall.ret = 0

\* The PT_LOAD segments lie one after the other: no p_vaddr + p_memsz
\* overflows, and each segment ends at or before the start of the next.
AscendingLayout(hdrs) ==
    /\ \A i \in 1 .. Len(hdrs) : hdrs[i].p_vaddr + hdrs[i].p_memsz < AddrModulus
    /\ \A i \in 1 .. Len(hdrs) - 1 : hdrs[i].p_vaddr + hdrs[i].p_memsz <= hdrs[i + 1].p_vaddr

\* C1, as stated: after any sequence of getSegmentForAddress calls, a call
\* with an address inside a PT_LOAD segment returns that very segment, and a
\* call with an address >= endVA() returns null, for every list of PT_LOAD
\* segments an image may hold.
C1_AnyLayout == segCall.called => SegmentLookupExact

\* C1, amended: the same, for an Object whose PT_LOAD segments do not
\* overlap (each ends, without overflow, at or before the start of the next).
C1_AscendingLayout ==
    segCall.called /\ AscendingLayout(Loads) => SegmentLookupExact

\* C1 witness: three non-empty segments one after the other, and a call
\* answered from the one-slot cache after an earlier call.
C1_Witness ==
    /\ segCall.called
    /\ AscendingLayout(Loads)
    /\ Len(Loads) = 3
    /\ \A i \in 1 .. 3 : Loads[i].p_memsz > 0
    /\ segCall.how = "cache"
    /\ segCall.ret = 2

SortedByVaddr(hdrs) ==
    \A i \in 1 .. Len(hdrs) - 1 : hdrs[i].p_vaddr <= hdrs[i + 1].p_vaddr

\* C2: in every reachable state, every group of program headers of the
\* Object, and of its companion debug Object once getDebug() has loaded
\* (and compensated) it, is sorted ascending by p_vaddr.
C2_GroupsSorted ==
    /\ \A t \in DOMAIN programHeaders : SortedByVaddr(programHeaders[t])
    /\ debugObject # NoObject =>
           \A t \in DOMAIN debugObject.programHeaders :
               SortedByVaddr(debugObject.programHeaders[t])

\* C4: getDebug() makes at most one discovery attempt per Object; an Object
\* constructed with isDebug = true makes none; once debugLoaded is true it
\* stays true, a call made with the latch set runs no discovery, and every
\* call returns what the first call returned.
C4_SingleAttempt ==
    /\ debugLog.attempts <= 1
    /\ debugLog.isDebug => debugLog.attempts = 0 /\ debugLoaded
    /\ debugLog.loadedBefore => debugLoaded /\ ~debugLog.discovered
    /\ debugLog.calls >= 1 => debugLog.last = debugLog.first
    /\ debugLog.calls >= 1 /\ ~debugLog.crashed => debugLog.last = debugObject

\* C4 witness: a second call after a discovery that found a companion.
C4_Witness ==
    /\ debugLog.calls = 2
    /\ debugLog.attempts = 1
    /\ ~debugLog.discovered
    /\ debugObject # NoObject
    /\ debugLog.last = debugObject

\* C5: after getDebug() has returned a companion, either the two .dynamic
\* sh_addr were equal and no address of the companion has changed, or they
\* differed by D = primary - companion and every section sh_addr and every
\* p_vaddr of the companion is D more than it was when loaded; whichever
\* method found the companion and whatever the logging configuration.
C5_Compensated ==
    debugObject # NoObject /\ ~debugLog.crashed =>
        LET was == debugLog.asLoaded
            s == DynamicAddr(sectionHeaders, namedSection)
            d == DynamicAddr(was.sectionHeaders, was.namedSection)
            D == IF d = s THEN 0 ELSE SubWrap(s, d)
        IN  /\ \A i \in DOMAIN was.sectionHeaders :
                   debugObject.sectionHeaders[i].sh_addr
                       = AddWrap(was.sectionHeaders[i].sh_addr, D)
            /\ \A t \in DOMAIN was.programHeaders :
                   \A k \in DOMAIN was.programHeaders[t] :
                       debugObject.programHeaders[t][k].p_vaddr
                           = AddWrap(was.programHeaders[t][k].p_vaddr, D)

\* name ends with ".dwo".
HasDwoSuffix(name) ==
    /\ Len(name) >= Len(dwosuffix)
    /\ SubSeq(name, Len(name) - Len(dwosuffix) + 1, Len(name)) = dwosuffix

\* The resolution order C9 states: the exact match; else, for a ".debug_"
\* name, the lookup of the ".z" name when that is not null; else, for a name
\* that does not end with ".dwo", the lookup of name + ".dwo"; else the null
\* section.
RECURSIVE StatedLookup(_, _)
StatedLookup(name, type) ==
    IF ExactMatch(sectionHeaders, namedSection, name, type) THEN namedSection[name]
    ELSE LET z == IF StartsWith(name, DebugPrefix)
                  THEN StatedLookup(<<".", "z">> \o Tail(name), type) ELSE 0
         IN  IF IsSection(sectionHeaders[z]) THEN z
             ELSE IF ~HasDwoSuffix(name) THEN StatedLookup(name \o dwosuffix, type)
             ELSE 0

\* C9: getSection(name, type) returns, for every name, the section the
\* stated resolution order gives.
C9_ResolutionOrder ==
    secCall.op = "getSection" => secCall.ret = StatedLookup(secCall.name, secCall.type)

\* The reader C10 states for a section.
StatedReader(sec) ==
    IF sec.sh_type = "SHT_NULL" THEN NullReader
    ELSE IF sec.compressed
    THEN [kind |-> "inflate", size |-> sec.ch_size,
          off |-> SizeofChdr, len |-> sec.sh_size - SizeofChdr]
    ELSE IF StartsWith(sec.name, ZdebugPrefix) /\ sec.magic = "ZLIB"
    THEN [kind |-> "inflate", size |-> BigEndian(sec.sizeBytes, 8),
          off |-> SizeofSig, len |-> BigEndian(sec.sizeBytes, 8)]
    ELSE [kind |-> "raw", size |-> sec.sh_size, off |-> 0, len |-> sec.sh_size]

\* C10: Section::io() picks its reader by three branches (SHF_COMPRESSED;
\* ".zdebug_" with the "ZLIB" magic; the raw view in every other case), and
\* only a SHT_NULL section gets an empty reader.
C10_ThreeBranches ==
    secCall.op = "io" =>
        /\ secCall.reader = StatedReader(sectionHeaders[secCall.ret])
        /\ secCall.reader.kind = "null" => sectionHeaders[secCall.ret].sh_type = "SHT_NULL"

\* C3: findDynamicSymbol(n) finds every name n that is the name of some
\* entry of .dynsym (an index other than 0 and a symbol named n) whenever a
\* GNU or a SysV hash exists, and returns (undef, 0) for an absent name and
\* when neither table exists.
C3_EveryDynsymName ==
    hashCall.called =>
        LET n == hashCall.name
            present == \E i \in 1 .. Len(dynsym) : dynsym[i].st_name = n
        IN  IF present /\ (gnu_hash_ # NoHash \/ hash_ # NoHash)
            THEN hashCall.idx # 0 /\ hashCall.sym.st_name = n
            ELSE hashCall.idx = 0 /\ hashCall.sym = Undef

\* The candidates of one image that pass the filters and cover a, and its
\* zero-size symbols at a; sums are taken in Elf::Addr arithmetic.
SymsOf(obj) ==
    {<<obj.image, ".symtab", k>> : k \in 1 .. Len(obj.symtab)}
    \cup {<<obj.image, ".dynsym", k>> : k \in 1 .. Len(obj.dynsym)}
SymAt(obj, n) == IF n[2] = ".symtab" THEN obj.symtab[n[3]] ELSE obj.dynsym[n[3]]
Filtered(obj, n, type) ==
    /\ SymAt(obj, n).st_shndx < Len(obj.sections)
    /\ type = "STT_NOTYPE" \/ SymAt(obj, n).st_type = type
CoveringIn(obj, a, type) ==
    {n \in SymsOf(obj) :
        /\ Filtered(obj, n, type)
        /\ obj.sections[SymAt(obj, n).st_shndx + 1].alloc
        /\ SymAt(obj, n).st_value <= a
        /\ a < AddWrap(SymAt(obj, n).st_value, SymAt(obj, n).st_size)}
ZeroSizeIn(obj, a, type) ==
    {n \in SymsOf(obj) :
        /\ Filtered(obj, n, type)
        /\ SymAt(obj, n).st_size = 0
        /\ SymAt(obj, n).st_value = a}
AllCovering(a, type) ==
    CoveringIn(symImage, a, type)
    \cup (IF symImage.gnu_debugdata = NoImage THEN {}
          ELSE CoveringIn(symImage.gnu_debugdata, a, type))
AllZeroSize(a, type) ==
    ZeroSizeIn(symImage, a, type)
    \cup (IF symImage.gnu_debugdata = NoImage THEN {}
          ELSE ZeroSizeIn(symImage.gnu_debugdata, a, type))

\* C6: findSymbolByAddress(a, type) returns a covering candidate whenever
\* .symtab, .dynsym or the image in .gnu_debugdata has one; it returns a
\* zero-size symbol at a only when no table has a covering candidate, and
\* absent only when there is neither.
C6_CoveringPreferred ==
    symCall.called =>
        LET a == symCall.addr
            type == symCall.type
            ret == symCall.ret
        IN  /\ AllCovering(a, type) # {}
                => ret.found /\ ret.name \in AllCovering(a, type)
            /\ ret.found
                => ret.name \in AllCovering(a, type) \cup AllZeroSize(a, type)
            /\ ret.found /\ ret.name \notin AllCovering(a, type)
                => AllCovering(a, type) = {}
            /\ ~ret.found
                => AllCovering(a, type) = {} /\ AllZeroSize(a, type) = {}

\* A zero-size symbol at a in .symtab and a covering one only in the nested
\* image: the covering one is returned.
C6_Witness ==
    /\ symCall.called
    /\ ZeroSizeIn(symImage, symCall.addr, symCall.type) # {}
    /\ CoveringIn(symImage, symCall.addr, symCall.type) = {}
    /\ symCall.ret.found
    /\ symCall.ret.name[1] = "nested"
    /\ debugData # NoImage

\* The notes of the PT_NOTE segments from segment i on, in file order.
RECURSIVE NotePositions(_, _)
NotePositions(phdrs, i) ==
    IF i > Len(phdrs) THEN <<>>
    ELSE [k \in 1 .. Len(phdrs[i].notes) |->
              <<i, NoteOffset(phdrs[i].notes, k)>>]
         \o NotePositions(phdrs, i + 1)

\* C7: iterating notes() from begin() visits exactly the notes of every
\* PT_NOTE segment, each once and in file order, and then reaches end().
C7_VisitsExactlyTheNotes ==
    LET all == NotePositions(noteSegments, 1)
    IN  /\ ~noteIter.threw
        /\ Len(visited) <= Len(all)
        /\ \A k \in 1 .. Len(visited) : visited[k] = all[k]
        /\ noteIter.made /\ IsEnd(noteIter, noteSegments) => visited = all

\* The names .gnu.version_r and .gnu.version_d record at version index i.
RecordedAt(image, i) ==
    (IF image.verneed = NoSection THEN {}
     ELSE {n \in VersionNames :
              \E j \in 1 .. Len(image.verneed.records) :
                  \E k \in 1 .. image.verneed.records[j].vn_cnt :
                      /\ image.verneed.records[j].aux[k].vna_other = i
                      /\ image.verneed.records[j].aux[k].vna_name = n})
    \cup
    (IF image.verdef = NoSection THEN {}
     ELSE {n \in VersionNames :
              \E j \in 1 .. Len(image.verdef.records) :
                  /\ image.verdef.records[j].vd_ndx = i
                  /\ image.verdef.records[j].vd_cnt >= 1
                  /\ image.verdef.records[j].aux[1] = n})

\* C8: symbolVersion(idx) is decided by the low 15 bits of idx: absent when
\* they are 0 or 1, and otherwise the version name recorded at that index.
C8_Low15Decides ==
    verCall.called =>
        LET i == verCall.idx % HiddenBit
        IN  IF i \in {0, 1} THEN verCall.ret.kind = "absent"
            ELSE /\ verCall.ret.kind = "name"
                 /\ verCall.ret.name \in RecordedAt(verImage, i)

\* C11: no query on a constructed Object raises an error for missing
\* information: symbolVersion returns absent or a name for every index and
\* every image, also for an index no record defines and for a version section
\* whose DT_VERNEEDNUM / DT_VERDEFNUM entry is missing.
C11_NoQueryFails ==
    verCall.called => verCall.ret.kind \in {"absent", "name"}

\* The two filter bits of a name and the bucket's start index, read off the
\* GNU table in the state.
FilterBit1(name) == Mod32(gnu_hash(name), ELF_BITS)
FilterBit2(name, tab) == Mod32(Shr32(gnu_hash(name), tab.bloom_shift), ELF_BITS)
FilterWord(name, tab) == tab.bloom[BloomIndex(gnu_hash(name), tab)]
FilterPasses(name, tab) ==
    /\ FilterBit1(name) \in FilterWord(name, tab)
    /\ FilterBit2(name, tab) \in FilterWord(name, tab)
BucketStart(name, tab) == tab.buckets[Mod32(gnu_hash(name), tab.nbuckets)]

\* C12: GnuHash::findSymbol returns (0, undef) at the Bloom test exactly when
\* one of the bits h % BITS and (h >> bloom_shift) % BITS is clear in the Bloom
\* word, before any bucket or chain is read; with both bits set and a bucket
\* start below symoffset it returns (0, undef) at the bucket test; and an
\* index it returns is >= symoffset and is the entry whose name is the query.
C12_BloomThenOffset ==
    (hashCall.called /\ gnu_hash_ # NoHash) =>
        /\ (hashCall.how = "bloom") <=> ~FilterPasses(hashCall.name, gnu_hash_)
        /\ (hashCall.how = "bucket") <=>
               /\ FilterPasses(hashCall.name, gnu_hash_)
               /\ BucketStart(hashCall.name, gnu_hash_) < gnu_hash_.symoffset
        /\ hashCall.how \in {"bloom", "bucket"} =>
               hashCall.idx = 0 /\ hashCall.sym = Undef
        /\ hashCall.idx # 0 =>
               /\ hashCall.how = "chain"
               /\ hashCall.idx >= gnu_hash_.symoffset
               /\ hashCall.idx < Len(dynsym)
               /\ dynsym[hashCall.idx + 1].st_name = hashCall.name
               /\ hashCall.sym = dynsym[hashCall.idx + 1]

\* A lookup the Bloom test rejects although the first bit is set: only the
\* second bit is clear.
C12_Witness ==
    /\ hashCall.called /\ gnu_hash_ # NoHash
    /\ hashCall.how = "bloom"
    /\ FilterBit1(hashCall.name) \in FilterWord(hashCall.name, gnu_hash_)
    /\ FilterBit2(hashCall.name, gnu_hash_) \notin FilterWord(hashCall.name, gnu_hash_)

\* The place of a discovery candidate in the stated order: by name, by build
\* ID, by debug link (the debug directories, then the executable's own
\* directory), debuginfod.
MethodRank(c) ==
    CASE c.m = "name" -> 1
      [] c.m = "buildid" -> 2
      [] c.m = "link" -> 3
      [] c.m = "linkdir" -> 4
      [] c.m = "debuginfod" -> 5
CandidateBefore(c, d) ==
    \/ MethodRank(c) < MethodRank(d)
    \/ MethodRank(c) = MethodRank(d) /\ c.i < d.i

\* C13: the first getDebug call tries the candidates in the fixed order, the
\* companion it returns is the one of the last candidate tried (so nothing is
\* tried after a success, and every earlier candidate produced none), and a
\* candidate that does not load never aborts the discovery with an error.
C13_DiscoveryOrder ==
    debugLog.attempts >= 1 =>
        /\ \A j, k \in 1 .. Len(debugLog.tried) :
               j < k => CandidateBefore(debugLog.tried[j], debugLog.tried[k])
        /\ debugLog.asLoaded # NoObject =>
               /\ debugLog.tried # <<>>
               /\ debugLog.asLoaded.src = debugLog.tried[Len(debugLog.tried)]
        /\ ~debugLog.threw

\* C14: after a successful construction sectionHeaders is non-empty; it has
\* e_shnum entries when e_shnum != 0, shdr[0].sh_size entries when e_shnum is
\* 0 and e_shentsize is not, and exactly one entry (the default null
\* section) when e_shoff is outside the file or the declared count is 0.
C14_SectionCount ==
    constructed.state = "ok" =>
        LET n == constructed.sectionHeaders
            inside == elfHeader.e_shoff < ioSize
        IN  /\ n >= 1
            /\ ~inside => n = 1
            /\ (inside /\ elfHeader.e_shnum # 0) => n = elfHeader.e_shnum
            /\ (inside /\ elfHeader.e_shnum = 0 /\ elfHeader.e_shentsize # 0) =>
                   n = (IF firstShdr.sh_size = 0 THEN 1 ELSE firstShdr.sh_size)
            /\ (inside /\ elfHeader.e_shnum = 0 /\ elfHeader.e_shentsize = 0) => n = 1

\* What C15 says of the last call: its result is the one the binary search
\* gives with an empty cache slot, and the slot differs from its value before
\* the call only when the call returned a segment.
CacheTransparent ==
    /\ segCall.ret = SegmentForAddress(programHeaders, 0, segCall.a).ret
    /\ lastSegmentForAddress # segCall.before => segCall.ret # 0

EntryOf(n) ==
    IF n[1] = symImage.image THEN SymAt(symImage, n)
    ELSE SymAt(symImage.gnu_debugdata, n)

\* C16: the Sym that findSymbolByAddress returns, covering match or zero-size
\* fallback, is field for field the symbol-table entry it was taken from
\* (st_shndx included), and the returned name is that entry's name.
C16_ReturnedIsEntry ==
    (symCall.called /\ symCall.ret.found) =>
        /\ symCall.ret.name \in
               SymsOf(symImage) \cup
               (IF symImage.gnu_debugdata = NoImage THEN {}
                ELSE SymsOf(symImage.gnu_debugdata))
        /\ symCall.ret.sym = EntryOf(symCall.ret.name)

\* C17: every hash lookup terminates: for every name and every table
\* contents a lookup that has entered its loop leaves it after finitely many
\* passes (counting a failed read as leaving it).
C17_EveryLookupStops ==
    (lookup.state = "walking") ~> (lookup.state \in {"returned", "threw"})

====
